---------------------------- MODULE Spec2Model ----------------------------
(***************************************************************************)
(* Model of the energy-aware cache replacement policy EnergyAwareRP        *)
(* (gem5/src/mem/cache/replacement_policies/energy_aware_rp.{hh,cc}).      *)
(*                                                                         *)
(* Reals (C++ double) are modelled as exact rationals <<n, d>> in lowest   *)
(* terms with d > 0; the pair <<0, 0>> stands for an IEEE NaN, the only    *)
(* non-finite value the cost formula can produce (0.0 / 0.0 when a counter *)
(* has zero bits).  Floating-point rounding is not modelled.               *)
(***************************************************************************)
EXTENDS Integers, Sequences, FiniteSets

VARIABLES
    cfg,        \* the policy's const members, set by the constructor
    ticks,      \* the values the simulated clock takes in this run
    curTick,    \* the simulated clock, curTick()
    entries,    \* the replacement data records handed out by instantiateEntry
    running,    \* FALSE once an assertion has aborted the process
    calls,      \* number of calls made to the policy so far
    oversized,  \* per record: updateUtilization was given more than
                \* blockSize bytes since the record's last reset/invalidate
    lastOp      \* the call that produced the current state, with its result

vars == <<cfg, ticks, curTick, entries, running, calls, oversized, lastOp>>

(***************************************************************************)
(* Bounds of the model.                                                    *)
(***************************************************************************)
MaxTick == 2
MaxEntries == 2
MaxCalls == 5

(***************************************************************************)
(* Rational arithmetic standing for double arithmetic.                     *)
(***************************************************************************)
Abs(n) == IF n < 0 THEN -n ELSE n

RECURSIVE GCD(_, _)
GCD(a, b) == IF b = 0 THEN a ELSE GCD(b, a % b)

NaN == <<0, 0>>
IsNaN(x) == x[2] = 0

Rat(n, d) ==
    IF n = 0 THEN <<0, 1>>
    ELSE LET g == GCD(Abs(n), d) IN <<n \div g, d \div g>>

RInt(n) == <<n, 1>>
Zero == <<0, 1>>
One == <<1, 1>>

\* (double)a / (double)b for integers a >= 0, b >= 0.  A zero divisor only
\* occurs with a zero numerator (a counter of zero bits never leaves 0).
RDivInt(a, b) == IF b = 0 THEN NaN ELSE Rat(a, b)

LCM(a, b) == (a \div GCD(a, b)) * b

RAdd(x, y) ==
    IF IsNaN(x) \/ IsNaN(y) THEN NaN
    ELSE LET l == LCM(x[2], y[2])
         IN  Rat(x[1] * (l \div x[2]) + y[1] * (l \div y[2]), l)

RNeg(x) == IF IsNaN(x) THEN NaN ELSE <<-x[1], x[2]>>

RSub(x, y) == RAdd(x, RNeg(y))

RMul(x, y) ==
    IF IsNaN(x) \/ IsNaN(y) THEN NaN
    ELSE LET g1 == GCD(Abs(x[1]), y[2])
             g2 == GCD(Abs(y[1]), x[2])
             a == IF g1 = 0 THEN 1 ELSE g1
             b == IF g2 = 0 THEN 1 ELSE g2
         IN  Rat((x[1] \div a) * (y[1] \div b), (x[2] \div b) * (y[2] \div a))

\* x < y on doubles; every comparison with a NaN is false.
RLess(x, y) ==
    IF IsNaN(x) \/ IsNaN(y) THEN FALSE
    ELSE LET l == LCM(x[2], y[2])
         IN  x[1] * (l \div x[2]) < y[1] * (l \div y[2])

RLeq(x, y) == ~IsNaN(x) /\ ~IsNaN(y) /\ ~RLess(y, x)

\* std::max(a, b) is (a < b) ? b : a
StdMax(a, b) == IF RLess(a, b) THEN b ELSE a

(***************************************************************************)
(* The saturating counter (cpu/pred/sat_counter.hh), by its contract.      *)
(***************************************************************************)
RECURSIVE Pow2(_)
Pow2(n) == IF n = 0 THEN 1 ELSE 2 * Pow2(n - 1)

SatMax(bits) == Pow2(bits) - 1
SatIncrement(counter, bits) ==
    IF counter < SatMax(bits) THEN counter + 1 ELSE counter
SatReset == 0

(***************************************************************************)
(* Configurations (EnergyAwareRPParams).  Weights and energy multipliers   *)
(* are rationals.                                                          *)
(***************************************************************************)
Params(fb, wb, bs, rw) ==
    [frequencyBits |-> fb, writeBits |-> wb,
     recencyWeight |-> rw,
     frequencyWeight |-> Rat(2, 10),
     writeWeight |-> Rat(2, 10),
     dirtyWeight |-> Rat(2, 10),
     utilizationWeight |-> Rat(1, 10),
     pcmWriteCost |-> RInt(5),
     pcmReadCost |-> RInt(1),
     blockSize |-> bs]

\* The configuration of the end-to-end vector.
E2EParams == Params(4, 4, 64, Rat(3, 10))

\* Small configurations: a valid one, one with a negative recency weight,
\* and the two with a counter of zero bits.
SmallParams ==
    { Params(2, 1, 2, Rat(3, 10)),
      Params(2, 1, 2, Rat(-1, 10)),
      Params(0, 1, 2, Rat(3, 10)),
      Params(1, 0, 2, Rat(3, 10)) }

ValidConfig == cfg.frequencyBits > 0 /\ cfg.writeBits > 0

(***************************************************************************)
(* EnergyAwareReplData and the cost function.                              *)
(***************************************************************************)
EnergyAwareReplData ==
    [lastTouchTick |-> 0, accessFreq |-> 0, writeCount |-> 0, bytesUsed |-> 0,
     isDirty |-> FALSE, predictedReuse |-> 0, energyCost |-> Zero]

\* Mutant: the recency factor without the test currentTick > lastTouchTick.
RecencyFactorUnguarded(repl_data, currentTick) ==
    RDivInt(currentTick - repl_data.lastTouchTick, currentTick)

\* 1. Recency factor
RecencyFactor(repl_data, currentTick) ==
    IF currentTick > repl_data.lastTouchTick
    THEN RDivInt(currentTick - repl_data.lastTouchTick, currentTick)
    ELSE Zero

\* 5. Utilization factor, for a block of blockSize bytes
UtilizationFactor(repl_data, blockSize) ==
    RSub(One, RDivInt(repl_data.bytesUsed, blockSize))

\* Mutant: return energyCost, without std::max(0.0, ...)
Unclamped(energyCost) == energyCost

\* return std::max(0.0, energyCost)
Clamped(energyCost) == StdMax(Zero, energyCost)

\* calculateEnergyCost under the parameters p, at clock value currentTick.
EnergyCost(p, repl_data, currentTick) ==
    LET recencyFactor == RecencyFactor(repl_data, currentTick)
        maxFreq == Pow2(p.frequencyBits) - 1
        frequencyFactor == RSub(One, RDivInt(repl_data.accessFreq, maxFreq))
        maxWrites == Pow2(p.writeBits) - 1
        writeIntensity == RDivInt(repl_data.writeCount, maxWrites)
        dirtyFactor == IF repl_data.isDirty THEN One ELSE Zero
        utilizationFactor == UtilizationFactor(repl_data, p.blockSize)
        futureReadCost == RMul(RInt(repl_data.accessFreq), p.pcmReadCost)
        futureWriteCost == RMul(RInt(repl_data.writeCount), p.pcmWriteCost)
        writeBackCost == IF repl_data.isDirty THEN p.pcmWriteCost ELSE Zero
        energyCost ==
            RSub(RAdd(RAdd(RAdd(RAdd(RAdd(
                RMul(p.recencyWeight, recencyFactor),
                RMul(p.frequencyWeight, frequencyFactor)),
                RMul(p.writeWeight, writeIntensity)),
                RMul(p.dirtyWeight, dirtyFactor)),
                RMul(p.utilizationWeight, utilizationFactor)),
                RMul(Rat(1, 10), RAdd(futureReadCost, futureWriteCost))),
                RMul(Rat(2, 10), writeBackCost))
    IN  Clamped(energyCost)

EnergyCostAt(repl_data, currentTick) == EnergyCost(cfg, repl_data, currentTick)

calculateEnergyCost(repl_data) == EnergyCostAt(repl_data, curTick)


(***************************************************************************)
(* The effect of each member function on one record.                       *)
(***************************************************************************)
WithCost(repl_data) ==
    [repl_data EXCEPT !.energyCost = calculateEnergyCost(repl_data)]

\* Mutant: invalidate without the last assignment, energyCost = 0.0.
InvalidateDataKeepsCost(repl_data) ==
    [repl_data EXCEPT !.lastTouchTick = 0,
                      !.accessFreq = SatReset,
                      !.writeCount = SatReset,
                      !.bytesUsed = 0,
                      !.isDirty = FALSE,
                      !.predictedReuse = 0]

InvalidateData(repl_data) ==
    [repl_data EXCEPT !.lastTouchTick = 0,
                      !.accessFreq = SatReset,
                      !.writeCount = SatReset,
                      !.bytesUsed = 0,
                      !.isDirty = FALSE,
                      !.predictedReuse = 0,
                      !.energyCost = Zero]

\* Mutant: touch computing the cost before it updates lastTouchTick.
TouchDataCostBeforeTick(repl_data) ==
    LET counted == [repl_data EXCEPT
            !.accessFreq =
                SatIncrement(repl_data.accessFreq, cfg.frequencyBits)]
    IN  [counted EXCEPT !.lastTouchTick = curTick,
                        !.energyCost = calculateEnergyCost(counted)]

\* Mutant: touch with reset's bytesUsed = blockSize copied into it.
TouchDataFullUtilization(repl_data) ==
    WithCost([repl_data EXCEPT
        !.lastTouchTick = curTick,
        !.accessFreq = SatIncrement(repl_data.accessFreq, cfg.frequencyBits),
        !.bytesUsed = cfg.blockSize])

TouchData(repl_data) ==
    WithCost([repl_data EXCEPT
        !.lastTouchTick = curTick,
        !.accessFreq = SatIncrement(repl_data.accessFreq, cfg.frequencyBits)])

\* Mutant: reset computing the cost before it updates lastTouchTick.
ResetDataCostBeforeTick(repl_data) ==
    LET filled == [repl_data EXCEPT
            !.accessFreq =
                SatIncrement(repl_data.accessFreq, cfg.frequencyBits),
            !.writeCount = SatReset,
            !.bytesUsed = cfg.blockSize,
            !.isDirty = FALSE,
            !.predictedReuse = 1]
    IN  [filled EXCEPT !.lastTouchTick = curTick,
                       !.energyCost = calculateEnergyCost(filled)]

\* Mutant: reset without bytesUsed = blockSize.
ResetDataKeepsBytes(repl_data) ==
    WithCost([repl_data EXCEPT
        !.lastTouchTick = curTick,
        !.accessFreq = SatIncrement(repl_data.accessFreq, cfg.frequencyBits),
        !.writeCount = SatReset,
        !.isDirty = FALSE,
        !.predictedReuse = 1])

ResetData(repl_data) ==
    WithCost([repl_data EXCEPT
        !.lastTouchTick = curTick,
        !.accessFreq = SatIncrement(repl_data.accessFreq, cfg.frequencyBits),
        !.writeCount = SatReset,
        !.bytesUsed = cfg.blockSize,
        !.isDirty = FALSE,
        !.predictedReuse = 1])

\* Mutant: updateWriteStats counting in a plain integer.
UpdateWriteStatsDataUnbounded(repl_data) ==
    WithCost([repl_data EXCEPT !.writeCount = repl_data.writeCount + 1])

UpdateWriteStatsData(repl_data) ==
    WithCost([repl_data EXCEPT
        !.writeCount = SatIncrement(repl_data.writeCount, cfg.writeBits)])

\* Mutant: updateUtilization storing bytes_accessed, without std::max.
UpdateUtilizationDataOverwrites(repl_data, bytes_accessed) ==
    WithCost([repl_data EXCEPT !.bytesUsed = bytes_accessed])

UpdateUtilizationData(repl_data, bytes_accessed) ==
    WithCost([repl_data EXCEPT
        !.bytesUsed = IF repl_data.bytesUsed < bytes_accessed
                      THEN bytes_accessed ELSE repl_data.bytesUsed])

\* Mutant: setDirtyStatus without the recomputation of the cost.
SetDirtyStatusDataNoRecalc(repl_data, is_dirty) ==
    [repl_data EXCEPT !.isDirty = is_dirty]

SetDirtyStatusData(repl_data, is_dirty) ==
    WithCost([repl_data EXCEPT !.isDirty = is_dirty])

\* Mutant: if (cost >= maxCost)
ExceedsOrTies(cost, maxCost) == RLeq(maxCost, cost)

\* if (cost > maxCost)
Exceeds(cost, maxCost) == RLess(maxCost, cost)

\* Mutant: maxCost seeded with a cost no candidate reaches.
SeedCostHuge(repl_data) == RInt(1000000)

\* Mutant: getVictim touching each candidate it visits.
RefreshedByTouch(repl_data) == TouchData(repl_data)

\* What the loop of getVictim does to a candidate's record:
\* repl_data->energyCost = cost
Refreshed(repl_data) == WithCost(repl_data)

\* The cost maxCost is seeded with: the stored energyCost of candidates[0].
SeedCost(repl_data) == repl_data.energyCost

\* The loop of getVictim from candidate k on; yields the victim.
RECURSIVE VictimLoop(_, _, _, _)
VictimLoop(candidates, k, victim, maxCost) ==
    IF k > Len(candidates) THEN victim
    ELSE LET cost == calculateEnergyCost(entries[candidates[k]])
         IN  IF Exceeds(cost, maxCost)
             THEN VictimLoop(candidates, k + 1, candidates[k], cost)
             ELSE VictimLoop(candidates, k + 1, victim, maxCost)

Victim(candidates) ==
    VictimLoop(candidates, 1, candidates[1],
               SeedCost(entries[candidates[1]]))

(***************************************************************************)
(* Inputs.                                                                 *)
(***************************************************************************)
Ids == 1..Len(entries)

Range(seq) == {seq[k] : k \in 1..Len(seq)}

\* ReplacementCandidates: the lists of distinct entries, the empty one too.
CandidateLists ==
    UNION {{c \in [1..n -> Ids] : \A j, k \in 1..n : j # k => c[j] # c[k]}
           : n \in 0..Len(entries)}

\* uint32_t bytes_accessed: values up to, at and beyond the block size.
BytesAccessed ==
    {b \in {0, 1, cfg.blockSize - 1, cfg.blockSize, cfg.blockSize + 1} : b >= 0}

\* A call, as lastOp records it: the function, the entry and the argument it
\* was given (or the candidate list), the records as they were before the
\* call (of the entry, or of every entry for getVictim), and what getVictim
\* returned.
Op(op, entry, arg, candidates, before, victim) ==
    [op |-> op, entry |-> entry, arg |-> arg, candidates |-> candidates,
     before |-> before, victim |-> victim]

(***************************************************************************)
(* Actions: one per member function, and the clock.                        *)
(***************************************************************************)
\* Every call of a member function counts against the bound on calls.
Called == calls < MaxCalls /\ calls' = calls + 1

Tick ==
    /\ running
    /\ \E t \in ticks : t > curTick /\ curTick' = t
    /\ lastOp' = Op("tick", 0, 0, <<>>, <<>>, 0)
    /\ UNCHANGED <<cfg, ticks, entries, running, calls, oversized>>

instantiateEntry ==
    /\ running
    /\ Called
    /\ Len(entries) < MaxEntries
    /\ entries' = Append(entries, EnergyAwareReplData)
    /\ oversized' = Append(oversized, FALSE)
    /\ lastOp' = Op("instantiateEntry", Len(entries) + 1, 0, <<>>, <<>>, 0)
    /\ UNCHANGED <<cfg, ticks, curTick, running>>

invalidate(i) ==
    /\ running
    /\ Called
    /\ entries' = [entries EXCEPT ![i] = InvalidateData(entries[i])]
    /\ oversized' = [oversized EXCEPT ![i] = FALSE]
    /\ lastOp' = Op("invalidate", i, 0, <<>>, entries[i], 0)
    /\ UNCHANGED <<cfg, ticks, curTick, running>>

touch(i) ==
    /\ running
    /\ Called
    /\ entries' = [entries EXCEPT ![i] = TouchData(entries[i])]
    /\ lastOp' = Op("touch", i, 0, <<>>, entries[i], 0)
    /\ UNCHANGED oversized
    /\ UNCHANGED <<cfg, ticks, curTick, running>>

reset(i) ==
    /\ running
    /\ Called
    /\ entries' = [entries EXCEPT ![i] = ResetData(entries[i])]
    /\ oversized' = [oversized EXCEPT ![i] = FALSE]
    /\ lastOp' = Op("reset", i, 0, <<>>, entries[i], 0)
    /\ UNCHANGED <<cfg, ticks, curTick, running>>

getVictim(candidates) ==
    /\ running
    /\ Called
    /\ IF Len(candidates) > 0
       THEN /\ entries' = [i \in Ids |->
                              IF i \in Range(candidates)
                              THEN Refreshed(entries[i]) ELSE entries[i]]
            /\ lastOp' = Op("getVictim", 0, 0, candidates, entries,
                            Victim(candidates))
            /\ UNCHANGED running
       ELSE \* With assertions compiled in, assert(candidates.size() > 0)
            \* aborts (v = 0).  With NDEBUG the assert is no code and
            \* candidates[0] reads past an empty vector, which is undefined:
            \* the process crashes (v = 0), or some pointer is returned, to
            \* a record or to none (v = Len(entries) + 1); the loop body
            \* never runs.
            /\ \E v \in 0..(Len(entries) + 1) :
                   /\ running' = (v # 0)
                   /\ lastOp' = Op("getVictim", 0, 0, candidates, entries, v)
            /\ UNCHANGED entries
    /\ UNCHANGED <<cfg, ticks, curTick, oversized>>

updateWriteStats(i) ==
    /\ running
    /\ Called
    /\ entries' = [entries EXCEPT ![i] = UpdateWriteStatsData(entries[i])]
    /\ lastOp' = Op("updateWriteStats", i, 0, <<>>, entries[i], 0)
    /\ UNCHANGED oversized
    /\ UNCHANGED <<cfg, ticks, curTick, running>>

updateUtilization(i, bytes_accessed) ==
    /\ running
    /\ Called
    /\ entries' = [entries EXCEPT
                     ![i] = UpdateUtilizationData(entries[i], bytes_accessed)]
    /\ oversized' = [oversized EXCEPT
                       ![i] = @ \/ bytes_accessed > cfg.blockSize]
    /\ lastOp' = Op("updateUtilization", i, bytes_accessed, <<>>, entries[i], 0)
    /\ UNCHANGED <<cfg, ticks, curTick, running>>

setDirtyStatus(i, is_dirty) ==
    /\ running
    /\ Called
    /\ entries' = [entries EXCEPT
                     ![i] = SetDirtyStatusData(entries[i], is_dirty)]
    /\ lastOp' = Op("setDirtyStatus", i, is_dirty, <<>>, entries[i], 0)
    /\ UNCHANGED oversized
    /\ UNCHANGED <<cfg, ticks, curTick, running>>

\* EnergyAwareRP::EnergyAwareRP stores the parameters as they come.
Constructed(p) ==
    /\ cfg = p
    /\ curTick = 0
    /\ entries = <<>>
    /\ running = TRUE
    /\ calls = 0
    /\ oversized = <<>>
    /\ lastOp = Op("EnergyAwareRP", 0, 0, <<>>, <<>>, 0)

Init ==
    /\ \E p \in SmallParams : Constructed(p)
    /\ ticks = 0..MaxTick

Next ==
    \/ Tick
    \/ instantiateEntry
    \/ \E i \in Ids : invalidate(i)
    \/ \E i \in Ids : touch(i)
    \/ \E i \in Ids : reset(i)
    \/ \E candidates \in CandidateLists : getVictim(candidates)
    \/ \E i \in Ids : updateWriteStats(i)
    \/ \E i \in Ids, bytes_accessed \in BytesAccessed :
           updateUtilization(i, bytes_accessed)
    \/ \E i \in Ids, is_dirty \in BOOLEAN : setDirtyStatus(i, is_dirty)

Spec == Init /\ [][Next]_vars

\* The run of the end-to-end vector: its configuration, and a clock that
\* passes through the two instants the vector names.
InitE2E ==
    /\ Constructed(E2EParams)
    /\ ticks = {0, 100, 200}

SpecE2E == InitE2E /\ [][Next]_vars

(***************************************************************************)
(* Properties.                                                             *)
(***************************************************************************)
\* The cost of entry i recomputed at the current clock value.
CostNow(i) == EnergyCostAt(entries[i], curTick)

\* The calls that end by storing a recomputed cost in one entry.
Mutators ==
    {"reset", "touch", "updateWriteStats", "updateUtilization",
     "setDirtyStatus"}

Returned == lastOp.op = "getVictim" /\ Len(lastOp.candidates) > 0

\* |x - k / 10000| <= 1 / 20000: x is k / 10000 to four decimals.
Approx4(x, k) ==
    RLeq(Rat(2 * k - 1, 20000), x) /\ RLeq(x, Rat(2 * k + 1, 20000))

\* C1: under a configuration with non-zero bit widths, the entry getVictim
\* returns has a cost recomputed at now that is greater than or equal to
\* the cost recomputed at now of every candidate of the list.
C1_VictimHasMaxCost ==
    (Returned /\ ValidConfig) =>
        \A c \in Range(lastOp.candidates) :
            RLeq(CostNow(c), CostNow(lastOp.victim))

\* A record in one of the two states of the lifecycle: Invalid (as
\* instantiateEntry and invalidate leave it) or Valid (reset, and not
\* invalidated since: only reset sets predictedReuse to 1).
InLifecycle(repl_data) ==
    repl_data = EnergyAwareReplData \/ repl_data.predictedReuse = 1

\* C2: after reset on a record in any state, Invalid or Valid, lastTouchTick
\* is now, accessFreq is 1, writeCount is 0, bytesUsed is blockSize and
\* isDirty is false.
C2_ResetPostState ==
    (lastOp.op = "reset" /\ InLifecycle(lastOp.before) /\ ValidConfig) =>
        LET e == entries[lastOp.entry]
        IN  /\ e.lastTouchTick = curTick
            /\ e.accessFreq = 1
            /\ e.writeCount = 0
            /\ e.bytesUsed = cfg.blockSize
            /\ e.isDirty = FALSE

\* The record of a freshly instantiated line after reset at tick 100 under
\* the end-to-end configuration (cost 43/150, about 0.2867).
E2EAfterReset ==
    [lastTouchTick |-> 100, accessFreq |-> 1, writeCount |-> 0,
     bytesUsed |-> 64, isDirty |-> FALSE, predictedReuse |-> 1,
     energyCost |-> Rat(43, 150)]

E2EResetCase ==
    /\ lastOp.op = "reset"
    /\ lastOp.before = EnergyAwareReplData
    /\ curTick = 100

E2ETouchCase ==
    /\ lastOp.op = "touch"
    /\ lastOp.before = E2EAfterReset
    /\ curTick = 200

\* C3 as stated: a fresh line reset at 100 and then touched at 200 has
\* accessFreq 2, lastTouchTick 200 and a stored cost of about 0.5233.
C3_TouchCostWithRecency ==
    /\ E2EResetCase => entries[lastOp.entry] = E2EAfterReset
    /\ E2ETouchCase =>
           /\ entries[lastOp.entry].accessFreq = 2
           /\ entries[lastOp.entry].lastTouchTick = 200
           /\ Approx4(entries[lastOp.entry].energyCost, 5233)

\* C3 as amended: a fresh line reset at 100 and then touched at 200 has
\* accessFreq 2, lastTouchTick 200 and a stored cost of 28/75, about 0.3733:
\* the recency term is 0 because lastTouchTick is already 200 when the cost
\* is computed.
C3_TouchCostWithoutRecency ==
    /\ E2EResetCase => entries[lastOp.entry] = E2EAfterReset
    /\ E2ETouchCase =>
           /\ entries[lastOp.entry].accessFreq = 2
           /\ entries[lastOp.entry].lastTouchTick = 200
           /\ entries[lastOp.entry].energyCost = Rat(28, 75)
           /\ Approx4(entries[lastOp.entry].energyCost, 3733)

C3_Witness == E2ETouchCase /\ entries[lastOp.entry].accessFreq = 2

\* C4: in every reachable state every entry has 0 <= bytesUsed <= blockSize.
C4_BytesUsedWithinBlock ==
    \A i \in Ids :
        0 <= entries[i].bytesUsed /\ entries[i].bytesUsed <= cfg.blockSize

\* C5: a configuration with frequencyBits = 0 or writeBits = 0 is rejected
\* at construction, so that no call ever computes a cost with maxFreq = 0
\* or maxWrites = 0 as a divisor.
C5_ZeroBitsRejected ==
    (lastOp.op \in Mutators \/ Returned) =>
        Pow2(cfg.frequencyBits) - 1 # 0 /\ Pow2(cfg.writeBits) - 1 # 0

\* C6: under the end-to-end configuration, of two records that differ only
\* in accessFreq the one with the lower accessFreq has the greater or equal
\* cost, at any clock value.
C6_ColderCostsMore ==
    \A i \in Ids :
        \A f1, f2 \in 0..SatMax(cfg.frequencyBits) :
            f1 < f2 =>
                RLeq(EnergyCostAt([entries[i] EXCEPT !.accessFreq = f2],
                                  curTick),
                     EnergyCostAt([entries[i] EXCEPT !.accessFreq = f1],
                                  curTick))

\* C7: right after reset, touch, updateWriteStats, updateUtilization and
\* setDirtyStatus the entry's stored cost, and right after getVictim the
\* stored cost of every candidate, is the cost of the entry's record at the
\* current clock value.
C7_StoredCostIsCurrent ==
    /\ lastOp.op \in Mutators =>
           entries[lastOp.entry].energyCost = CostNow(lastOp.entry)
    /\ Returned =>
           \A c \in Range(lastOp.candidates) :
               entries[c].energyCost = CostNow(c)

\* getVictim has refreshed a stored cost that was out of date, and a
\* mutator has stored a cost that differs from the one stored before.
C7_Witness ==
    /\ Returned
    /\ Len(lastOp.candidates) = 2
    /\ \E c \in Range(lastOp.candidates) :
           lastOp.before[c].energyCost # entries[c].energyCost
    /\ entries[lastOp.candidates[1]].energyCost # Zero

\* C8: when all candidates of a non-empty list have the same cost
\* recomputed at now, getVictim returns the first of the list, whatever
\* costs were stored before the call.
C8_TieKeepsFirst ==
    (Returned /\ \A c, d \in Range(lastOp.candidates) :
                     CostNow(c) = CostNow(d)) =>
        lastOp.victim = lastOp.candidates[1]

\* A tie between two candidates whose stored costs differed before the call.
C8_Witness ==
    /\ Returned
    /\ Len(lastOp.candidates) = 2
    /\ CostNow(lastOp.candidates[1]) = CostNow(lastOp.candidates[2])
    /\ lastOp.before[lastOp.candidates[1]].energyCost
           # lastOp.before[lastOp.candidates[2]].energyCost
    /\ lastOp.victim = lastOp.candidates[1]

\* C9: invalidate leaves the record exactly as instantiateEntry creates it.
C9_InvalidateYieldsFresh ==
    lastOp.op = "invalidate" =>
        /\ entries[lastOp.entry] = EnergyAwareReplData
        /\ entries[lastOp.entry].lastTouchTick = 0
        /\ entries[lastOp.entry].accessFreq = 0
        /\ entries[lastOp.entry].writeCount = 0
        /\ entries[lastOp.entry].bytesUsed = 0
        /\ entries[lastOp.entry].isDirty = FALSE
        /\ entries[lastOp.entry].predictedReuse = 0
        /\ entries[lastOp.entry].energyCost = Zero

\* invalidate of a record none of whose fields had its initial value.
C9_Witness ==
    /\ lastOp.op = "invalidate"
    /\ lastOp.before.lastTouchTick > 0
    /\ lastOp.before.accessFreq > 0
    /\ lastOp.before.writeCount > 0
    /\ lastOp.before.bytesUsed > 0
    /\ lastOp.before.predictedReuse = 1
    /\ lastOp.before.energyCost # Zero

\* C10: touch sets lastTouchTick to now and accessFreq to
\* min(old accessFreq + 1, 2^frequencyBits - 1), and leaves writeCount,
\* bytesUsed, isDirty and predictedReuse as they were.
C10_TouchEffect ==
    lastOp.op = "touch" =>
        LET e == entries[lastOp.entry]
            old == lastOp.before
            bound == Pow2(cfg.frequencyBits) - 1
        IN  /\ e.lastTouchTick = curTick
            /\ e.accessFreq = IF old.accessFreq + 1 < bound
                              THEN old.accessFreq + 1 ELSE bound
            /\ e.writeCount = old.writeCount
            /\ e.bytesUsed = old.bytesUsed
            /\ e.isDirty = old.isDirty
            /\ e.predictedReuse = old.predictedReuse

\* touch of a record whose counter is at its bound, and whose other fields
\* do not have their initial values.
C10_Witness ==
    /\ lastOp.op = "touch"
    /\ cfg.frequencyBits = 2
    /\ lastOp.before.accessFreq = 3
    /\ entries[lastOp.entry].accessFreq = 3
    /\ lastOp.before.lastTouchTick < curTick

C12_CostNonNegative ==
    ValidConfig =>
        \A i \in Ids :
            /\ RLeq(Zero, entries[i].energyCost)
            /\ \A t \in ticks : RLeq(Zero, EnergyCostAt(entries[i], t))

\* A dirty record with more bytes used than the block has, whose cost sum is
\* negative and is stored as 0.
C12_Witness ==
    /\ ValidConfig
    /\ lastOp.op = "setDirtyStatus"
    /\ lastOp.arg = TRUE
    /\ entries[lastOp.entry].bytesUsed > cfg.blockSize
    /\ lastOp.before.energyCost # Zero
    /\ entries[lastOp.entry].energyCost = Zero

\* C13: getVictim on a non-empty list changes no field of any record but
\* energyCost of the candidates, and returns one of the candidates.
C13_GetVictimFrame ==
    Returned =>
        /\ lastOp.victim \in Range(lastOp.candidates)
        /\ Len(entries) = Len(lastOp.before)
        /\ \A i \in Ids :
               IF i \in Range(lastOp.candidates)
               THEN [entries[i] EXCEPT !.energyCost = Zero]
                        = [lastOp.before[i] EXCEPT !.energyCost = Zero]
               ELSE entries[i] = lastOp.before[i]

\* getVictim over one of two records, both with a stored cost out of date.
C13_Witness ==
    /\ Returned
    /\ Len(lastOp.candidates) = 1
    /\ Len(entries) = 2
    /\ \A i \in Ids :
           /\ entries[i].lastTouchTick < curTick
           /\ entries[i].accessFreq > 0
           /\ lastOp.before[i].energyCost # CostNow(i)

\* The calls that leave a record's bytesUsed to updateUtilization.
KeepsBytes == {"touch", "updateWriteStats", "setDirtyStatus"}

\* C14: updateUtilization(b) leaves bytesUsed = max(old bytesUsed, b), and
\* touch, updateWriteStats, setDirtyStatus and getVictim leave bytesUsed as
\* it was: between reset and invalidate bytesUsed never decreases.
C14_BytesUsedMonotone ==
    /\ lastOp.op = "updateUtilization" =>
           /\ entries[lastOp.entry].bytesUsed >= lastOp.before.bytesUsed
           /\ entries[lastOp.entry].bytesUsed >= lastOp.arg
           /\ entries[lastOp.entry].bytesUsed
                  \in {lastOp.before.bytesUsed, lastOp.arg}
    /\ lastOp.op \in KeepsBytes =>
           entries[lastOp.entry].bytesUsed = lastOp.before.bytesUsed
    /\ Returned =>
           \A i \in Ids : entries[i].bytesUsed = lastOp.before[i].bytesUsed

\* updateUtilization with fewer bytes than the record has used.
C14_Witness ==
    /\ lastOp.op = "updateUtilization"
    /\ lastOp.arg > 0
    /\ lastOp.arg < lastOp.before.bytesUsed
    /\ entries[lastOp.entry].bytesUsed = lastOp.before.bytesUsed

\* C15: accessFreq <= 2^frequencyBits - 1 and writeCount <= 2^writeBits - 1
\* in every reachable state, and an increment at the bound leaves the
\* counter at the bound.
C15_CountersSaturate ==
    LET maxFreq == Pow2(cfg.frequencyBits) - 1
        maxWrites == Pow2(cfg.writeBits) - 1
    IN  /\ \A i \in Ids :
               /\ entries[i].accessFreq >= 0
               /\ entries[i].accessFreq <= maxFreq
               /\ entries[i].writeCount >= 0
               /\ entries[i].writeCount <= maxWrites
        /\ (lastOp.op \in {"touch", "reset"}
               /\ lastOp.before.accessFreq = maxFreq) =>
               entries[lastOp.entry].accessFreq = maxFreq
        /\ (lastOp.op = "updateWriteStats"
               /\ lastOp.before.writeCount = maxWrites) =>
               entries[lastOp.entry].writeCount = maxWrites

\* updateWriteStats of a record whose writeCount is at a non-zero bound.
C15_Witness ==
    /\ lastOp.op = "updateWriteStats"
    /\ cfg.writeBits > 0
    /\ lastOp.before.writeCount = Pow2(cfg.writeBits) - 1
    /\ entries[lastOp.entry].writeCount = Pow2(cfg.writeBits) - 1

\* C16 as stated: for every record and clock value the recency factor is
\* defined and in [0, 1), and 0 whenever currentTick <= lastTouchTick.
C16_RecencyBelowOne ==
    \A i \in Ids : \A t \in ticks :
        LET r == RecencyFactor(entries[i], t)
        IN  /\ ~IsNaN(r)
            /\ RLeq(Zero, r)
            /\ RLess(r, One)
            /\ t <= entries[i].lastTouchTick => r = Zero

\* C16 as amended: for every record and clock value the recency factor is
\* defined and in [0, 1], 0 whenever currentTick <= lastTouchTick (no
\* division then, so none by currentTick = 0), and 1 exactly when
\* lastTouchTick = 0 < currentTick.
C16_RecencyAtMostOne ==
    \A i \in Ids : \A t \in ticks :
        LET r == RecencyFactor(entries[i], t)
        IN  /\ ~IsNaN(r)
            /\ RLeq(Zero, r)
            /\ RLeq(r, One)
            /\ t <= entries[i].lastTouchTick => r = Zero
            /\ r = One <=> (entries[i].lastTouchTick = 0 /\ t > 0)

\* A record last touched at tick 0 and one last touched later, with the
\* clock past both.
C16_Witness ==
    /\ curTick > 0
    /\ \E i, j \in Ids :
           /\ entries[i].lastTouchTick = 0
           /\ RecencyFactor(entries[i], curTick) = One
           /\ entries[j].lastTouchTick > 0
           /\ entries[j].lastTouchTick < curTick
           /\ RLess(Zero, RecencyFactor(entries[j], curTick))

\* Recency weights other than the configured one.
OtherRecencyWeights == {RInt(-1), Zero, Rat(1, 2), RInt(7)}

\* C17: right after reset or touch the recency factor of the record is 0,
\* and the cost stored is the same under any recencyWeight and for any
\* lastTouchTick the record had before the call.
C17_StoredCostIgnoresRecency ==
    lastOp.op \in {"reset", "touch"} =>
        LET e == entries[lastOp.entry]
        IN  /\ RecencyFactor(e, curTick) = Zero
            /\ \A w \in OtherRecencyWeights :
                   e.energyCost =
                       EnergyCost([cfg EXCEPT !.recencyWeight = w], e,
                                  curTick)
            /\ \A t \in ticks :
                   e.energyCost =
                       IF lastOp.op = "touch"
                       THEN TouchData([lastOp.before EXCEPT
                                !.lastTouchTick = t]).energyCost
                       ELSE ResetData([lastOp.before EXCEPT
                                !.lastTouchTick = t]).energyCost

\* touch of a record last touched earlier and whose stored cost is not 0.
C17_Witness ==
    /\ lastOp.op = "touch"
    /\ ValidConfig
    /\ lastOp.before.lastTouchTick > 0
    /\ lastOp.before.lastTouchTick < curTick
    /\ entries[lastOp.entry].energyCost # Zero

\* The reference algorithm: the lowest-index candidate whose cost at now no
\* candidate exceeds.
ReferenceVictim(candidates) ==
    LET best == {k \in 1..Len(candidates) :
                    \A j \in 1..Len(candidates) :
                        RLeq(CostNow(candidates[j]), CostNow(candidates[k]))}
        first == CHOOSE k \in best : \A j \in best : k <= j
    IN  candidates[first]

\* C18: when recencyWeight >= 0, every stored cost is <= the record's cost
\* at the current clock value, and getVictim returns the entry the
\* reference algorithm returns.
C18_SeedIsHarmless ==
    RLeq(Zero, cfg.recencyWeight) =>
        /\ \A i \in Ids : RLeq(entries[i].energyCost, CostNow(i))
        /\ Returned => lastOp.victim = ReferenceVictim(lastOp.candidates)

\* getVictim returning the second candidate, the first one's stored cost
\* having been out of date and not 0.
C18_Witness ==
    /\ RLess(Zero, cfg.recencyWeight)
    /\ Returned
    /\ Len(lastOp.candidates) = 2
    /\ lastOp.victim = lastOp.candidates[2]
    /\ RLess(Zero, lastOp.before[lastOp.candidates[1]].energyCost)
    /\ RLess(lastOp.before[lastOp.candidates[1]].energyCost,
             CostNow(lastOp.candidates[1]))

\* A record reset since its last invalidate (only reset sets predictedReuse
\* to 1) and given no more than blockSize bytes since.
FullSinceReset(i, repl_data) == repl_data.predictedReuse = 1 /\ ~oversized[i]

\* C19: a record that was reset, and given at most blockSize bytes by every
\* updateUtilization since, has bytesUsed = blockSize and a utilization
\* factor of 0 until the next invalidate, and updateUtilization does not
\* change its bytesUsed.
C19_FullUntilInvalidate ==
    /\ \A i \in Ids :
           FullSinceReset(i, entries[i]) =>
               /\ entries[i].bytesUsed = cfg.blockSize
               /\ UtilizationFactor(entries[i], cfg.blockSize) = Zero
    /\ (lastOp.op = "updateUtilization"
           /\ FullSinceReset(lastOp.entry, entries[lastOp.entry])) =>
           entries[lastOp.entry].bytesUsed = lastOp.before.bytesUsed

\* updateUtilization with fewer bytes than the block has, on a reset record.
C19_Witness ==
    /\ lastOp.op = "updateUtilization"
    /\ lastOp.arg < cfg.blockSize
    /\ FullSinceReset(lastOp.entry, entries[lastOp.entry])
    /\ lastOp.before.predictedReuse = 1

=============================================================================
